---- MODULE Spec2Model ----
(***************************************************************************)
(* Model of src/app.py: a Streamlit chat page that asks a hosted language  *)
(* model for platform-tailored text.                                       *)
(*                                                                         *)
(* Representation.                                                         *)
(*   - A Python str is a sequence of one-character strings, so that        *)
(*     str.strip, concatenation and prefix tests are computed.  Platform   *)
(*     names, which are only dictionary keys, are TLA+ strings; Chars      *)
(*     gives their characters where the code formats them.                 *)
(*   - An optional value (None or v) is <<>> or <<v>>.                     *)
(*                                                                         *)
(* Execution.  Streamlit runs the script from its first line each time     *)
(* the user acts on a widget, one run at a time:                           *)
(*   - st.chat_input returns the text only in the run its submission       *)
(*     starts, and None in every other run; st.button likewise returns     *)
(*     True only in the run its click starts;                              *)
(*   - a widget can be acted on only if the last run rendered it;          *)
(*   - a keyed widget that a run does not render loses its entry in        *)
(*     st.session_state when that run ends.                                *)
(* One run of main() is one action, except that the run started by         *)
(* st.chat_input is split at the blocking call of generate_ai_response:    *)
(* the state between the two steps is the page while the spinner is        *)
(* shown.                                                                  *)
(***************************************************************************)
EXTENDS Integers, Sequences, FiniteSets, TLC

VARIABLES
    messages,           \* st.session_state.messages
    ratings,            \* st.session_state.ratings
    selected_platform,  \* st.session_state.selected_platform
    tone_preference,    \* value of the "Tone Preference" selectbox, line 88
    rate_response,      \* st.session_state["rate_response"]: <<>> when the key
                        \* is absent, <<v>> when it holds the optional rating v
    pc,                 \* "Idle", or "AwaitingGeneration" inside line 124
    prompt,             \* main's local `prompt` of the run in progress
    call,               \* arguments of the last generate_ai_response call
    result,             \* what that call did: returned string or raised
    requests,           \* chain.invoke calls that call issued
    metrics             \* what display_analytics last put in the sidebar

vars == <<messages, ratings, selected_platform, tone_preference, rate_response, pc, prompt,
          call, result, requests, metrics>>

(***************************************************************************)
(* Bounds of the model.                                                    *)
(***************************************************************************)
MaxMessages == 4    \* submissions stop when len(messages) would pass it
MaxRatings == 3     \* the feedback block is applied while len(ratings) is below it
MaxClock == 1       \* wall-clock readings are 0..MaxClock seconds after midnight
MaxText == 2        \* longest completion text the service returns

NoneVal == <<>>
Some(v) == <<v>>

Last(s) == s[Len(s)]

RECURSIVE SeqsUpTo(_, _)
SeqsUpTo(S, n) ==
    IF n = 0 THEN {<<>>}
    ELSE LET shorter == SeqsUpTo(S, n - 1)
         IN  shorter \cup {Append(s, x) : s \in {t \in shorter : Len(t) = n - 1}, x \in S}

(***************************************************************************)
(* PLATFORM_CONFIG, lines 13-19.                                           *)
(***************************************************************************)
PlatformNames == {"Twitter/X", "Facebook", "LinkedIn", "Instagram", "General"}

PLATFORM_CONFIG ==
    [p \in PlatformNames |->
        CASE p = "Twitter/X" -> [max_length |-> 280,  tone |-> "concise"]
          [] p = "Facebook"  -> [max_length |-> 800,  tone |-> "friendly"]
          [] p = "LinkedIn"  -> [max_length |-> 1200, tone |-> "professional"]
          [] p = "Instagram" -> [max_length |-> 300,  tone |-> "creative"]
          [] p = "General"   -> [max_length |-> 500,  tone |-> "neutral"]]

\* As PlatformOptions, for a selectbox that also offers a name without an entry.
PlatformOptionsWithExtra == PlatformNames \cup {"TikTok"}

\* list(PLATFORM_CONFIG.keys()), the options of the selectbox of lines 81-85
PlatformOptions == DOMAIN PLATFORM_CONFIG

\* Names that are not keys of PLATFORM_CONFIG, as arguments of
\* generate_ai_response.
OtherNames == {"TikTok", "linkedin", "choices"}

Chars(name) ==
    CASE name = "TikTok"    -> <<"T", "i", "k", "T", "o", "k">>
      [] name = "linkedin"  -> <<"l", "i", "n", "k", "e", "d", "i", "n">>
      [] name = "choices"   -> <<"c", "h", "o", "i", "c", "e", "s">>
      [] name = "Twitter/X" -> <<"T", "w", "i", "t", "t", "e", "r", "/", "X">>
      [] name = "Facebook"  -> <<"F", "a", "c", "e", "b", "o", "o", "k">>
      [] name = "LinkedIn"  -> <<"L", "i", "n", "k", "e", "d", "I", "n">>
      [] name = "Instagram" -> <<"I", "n", "s", "t", "a", "g", "r", "a", "m">>
      [] name = "General"   -> <<"G", "e", "n", "e", "r", "a", "l">>

\* repr of a str without quotes or backslashes in it
Repr(name) == <<"'">> \o Chars(name) \o <<"'">>

(***************************************************************************)
(* str.strip(), line 61: drops leading and trailing whitespace.            *)
(***************************************************************************)
Whitespace == {" ", "\n", "\t"}

RECURSIVE lstrip(_)
lstrip(s) ==
    IF s # <<>> /\ Head(s) \in Whitespace THEN lstrip(Tail(s)) ELSE s

RECURSIVE rstrip(_)
rstrip(s) ==
    IF s # <<>> /\ Last(s) \in Whitespace
    THEN rstrip(SubSeq(s, 1, Len(s) - 1)) ELSE s

strip(s) == rstrip(lstrip(s))

(***************************************************************************)
(* The generation service as generate_ai_response meets it.  `env` says    *)
(* how the calls of lines 45-59 end:                                       *)
(*   stage "init"   ChatGroq(...) raises (GROQ_API_KEY missing: api_key is *)
(*                  None), so chain.invoke is never reached;               *)
(*   stage "invoke" chain.invoke raises (network, auth, quota, or a        *)
(*                  completion that cannot be parsed);                     *)
(*   stage "ok"     chain.invoke returns the completion text.              *)
(* `type` is the class of the exception raised and `text` is str(e) or     *)
(* the completion.                                                         *)
(***************************************************************************)
Alphabet == {" ", "x"}

Texts == SeqsUpTo(Alphabet, MaxText)

MissingKey ==
    [stage |-> "init", type |-> "GroqError", text |-> <<"k", "e", "y">>]

InvokeFailures ==
    { [stage |-> "invoke", type |-> "APIConnectionError", text |-> <<"n", "e", "t">>],
      [stage |-> "invoke", type |-> "AuthenticationError", text |-> <<"4", "0", "1">>],
      [stage |-> "invoke", type |-> "RateLimitError",      text |-> <<"4", "2", "9">>],
      \* a completion without its 'choices' entry: KeyError('choices')
      [stage |-> "invoke", type |-> "KeyError",            text |-> Repr("choices")] }

Completions == { [stage |-> "ok", type |-> "", text |-> t] : t \in Texts }

Envs == {MissingKey} \cup InvokeFailures \cup Completions

\* The classes `except Exception` (line 62) catches: every exception the body
\* of the try can raise derives from Exception.
ExceptionSubclasses ==
    {"KeyError", "GroqError", "APIConnectionError", "AuthenticationError",
     "RateLimitError"}

ErrPrefix ==
    <<"E", "r", "r", "o", "r", " ", "g", "e", "n", "e", "r", "a", "t", "i", "n", "g",
      " ", "r", "e", "s", "p", "o", "n", "s", "e", ":", " ">>

StartsWith(s, pre) == Len(s) >= Len(pre) /\ SubSeq(s, 1, Len(pre)) = pre

Min(a, b) == IF a <= b THEN a ELSE b

MaxTokensUncapped(max_length) == max_length

\* The token ceiling of line 49.
MaxTokens(max_length) == Min(max_length, 1024)

\* What chain.invoke sends (lines 35-59): the system template filled with
\* tone and max_length, the user turn, and the model's settings.
Request(user_prompt, platform_rules) ==
    [tone        |-> platform_rules.tone,
     max_length  |-> platform_rules.max_length,
     input       |-> user_prompt,
     model_name  |-> "llama-3.3-70b-specdec",
     temperature |-> <<0, 7>>,
     max_tokens  |-> MaxTokens(platform_rules.max_length)]

\* As TryBody, with a default entry for a name that is not a key.
TryBodyWithDefault(user_prompt, platform, env) ==
    LET platform_rules == IF platform \in DOMAIN PLATFORM_CONFIG
                          THEN PLATFORM_CONFIG[platform]
                          ELSE PLATFORM_CONFIG["General"]
        req == Request(user_prompt, platform_rules)
    IN  IF env.stage = "ok"
        THEN [exc |-> NoneVal, value |-> strip(env.text), requests |-> <<req>>]
        ELSE [exc |-> Some([type |-> env.type, text |-> env.text]),
              value |-> <<>>,
              requests |-> IF env.stage = "init" THEN <<>> ELSE <<req>>]

\* The body of the try block, lines 32-61: its outcome is a returned value
\* or a raised exception, with the requests issued on the way.
TryBody(user_prompt, platform, env) ==
    IF platform \notin DOMAIN PLATFORM_CONFIG
    THEN [exc |-> Some([type |-> "KeyError", text |-> Repr(platform)]),
          value |-> <<>>, requests |-> <<>>]
    ELSE LET platform_rules == PLATFORM_CONFIG[platform]
             req == Request(user_prompt, platform_rules)
         IN  CASE env.stage = "init" ->
                    [exc |-> Some([type |-> env.type, text |-> env.text]),
                     value |-> <<>>, requests |-> <<>>]
               [] env.stage = "invoke" ->
                    [exc |-> Some([type |-> env.type, text |-> env.text]),
                     value |-> <<>>, requests |-> <<req>>]
               [] env.stage = "ok" ->
                    [exc |-> NoneVal, value |-> strip(env.text), requests |-> <<req>>]

\* As Caught, for a handler that names the service's errors only.
CaughtServiceErrors ==
    {"GroqError", "APIConnectionError", "AuthenticationError", "RateLimitError"}

\* The classes the handler of line 62 catches.
Caught == ExceptionSubclasses

\* generate_ai_response, lines 29-63.
generate_ai_response(user_prompt, platform, env) ==
    LET body == TryBody(user_prompt, platform, env)
    IN  IF body.exc = NoneVal
        THEN [raised |-> FALSE, ret |-> body.value, requests |-> body.requests]
        ELSE IF body.exc[1].type \in Caught
        THEN [raised |-> FALSE, ret |-> ErrPrefix \o body.exc[1].text,
              requests |-> body.requests]
        ELSE [raised |-> TRUE, ret |-> <<>>, requests |-> body.requests]

(***************************************************************************)
(* display_analytics, lines 65-73.                                         *)
(***************************************************************************)
RECURSIVE sum(_)
sum(rs) == IF rs = <<>> THEN 0 ELSE Head(rs) + sum(Tail(rs))

Digit(n) == <<"0", "1", "2", "3", "4", "5", "6", "7", "8", "9">>[n + 1]

RECURSIVE Decimal(_)
Decimal(n) == IF n < 10 THEN <<Digit(n)>> ELSE Decimal(n \div 10) \o <<Digit(n % 10)>>

\* The tenths that f"{num/den:.1f}" prints: the quotient rounded to the nearest
\* tenth, an exact tie going to the even tenth.  (A tie num/den = k/10 + 1/20
\* with den < 20 is a multiple of 1/4, which a double holds exactly.)
Tenths(num, den) ==
    LET k == (10 * num) \div den
        r == (10 * num) % den
    IN  IF 2 * r < den THEN k
        ELSE IF 2 * r > den THEN k + 1
        ELSE IF k % 2 = 0 THEN k ELSE k + 1

\* f"{avg_rating:.1f} <star>", line 71
FormatAverage(num, den) ==
    LET t == Tenths(num, den)
    IN  Decimal(t \div 10) \o <<".", Digit(t % 10), " ", "STAR">>

\* As display_analytics, dividing with // instead of /.
display_analytics_floor(msgs, rs) ==
    [total   |-> Len(msgs),
     average |-> IF rs # <<>>
                 THEN FormatAverage(sum(rs) \div Len(rs), 1)
                 ELSE <<"N", "/", "A">>]

display_analytics(msgs, rs) ==
    [total   |-> Len(msgs),
     average |-> IF rs # <<>>
                 THEN FormatAverage(sum(rs), Len(rs))
                 ELSE <<"N", "/", "A">>]

(***************************************************************************)
(* The records main() appends, lines 109-114 and 127-132.                  *)
(***************************************************************************)
Times == 0 .. MaxClock

\* datetime.now().strftime("%H:%M:%S") at t seconds after midnight
strftime(t) == <<t \div 3600, (t \div 60) % 60, t % 60>>

Seconds(hms) == hms[1] * 3600 + hms[2] * 60 + hms[3]

\* The clock readings possible after the ones already stored.
Now(msgs) == {t \in Times : msgs = <<>> \/ t >= Seconds(Last(msgs).time)}

user_msg(text, platform, t) ==
    [role |-> "user", content |-> text, platform |-> platform, time |-> strftime(t)]

\* As ai_msg, with the role of the record above it.
ai_msg_as_user(ai_response, platform, t) ==
    [role |-> "user", content |-> ai_response, platform |-> platform,
     time |-> strftime(t)]

\* As ai_msg, with the platform of line 25.
ai_msg_general(ai_response, platform, t) ==
    [role |-> "assistant", content |-> ai_response, platform |-> "General",
     time |-> strftime(t)]

ai_msg(ai_response, platform, t) ==
    [role |-> "assistant", content |-> ai_response, platform |-> platform,
     time |-> strftime(t)]

(***************************************************************************)
(* The feedback block, lines 141-147.  The radio is keyed "rate_response": *)
(* it returns the value st.session_state holds under that key, which line  *)
(* 142 sets to None when the key is absent.                                *)
(***************************************************************************)
\* As RadioOptions, for a radio that offers 0 to 6.
RadioOptionsWide == 0 .. 6

RadioOptions == 1 .. 5

\* What st.radio(..., [1, 2, 3, 4, 5], index=None) can return.
RadioReturns == {NoneVal} \cup {Some(r) : r \in RadioOptions}

\* `if selected_rating:` (line 145): None and 0 are false.
Truthy(opt) == opt # NoneVal /\ opt[1] # 0

FeedbackBlock(rr, rs) ==
    LET rr1 == IF rr = <<>> THEN Some(NoneVal) ELSE rr
        selected_rating == rr1[1]
    IN  [rate_response |-> rr1,
         ratings |-> IF Truthy(selected_rating)
                     THEN Append(rs, selected_rating[1])
                     ELSE rs]

(***************************************************************************)
(* The session: lines 21-27 and main(), lines 75-154.                      *)
(***************************************************************************)
Prompts == {<<"a">>, <<"b">>}

\* How the service answers during a session.
SessionEnvs ==
    { [stage |-> "ok", type |-> "", text |-> <<" ", "x">>],
      [stage |-> "invoke", type |-> "APIConnectionError", text |-> <<"n", "e", "t">>] }

NoCall == <<>>
NoResult == [raised |-> FALSE, ret |-> <<>>]
NotRendered == [total |-> 0, average |-> <<>>]

Init ==
    /\ messages = <<>>
    /\ selected_platform = "General"
    /\ tone_preference = "Professional"
    /\ ratings = <<>>
    /\ rate_response = <<>>
    /\ pc = "Idle"
    /\ prompt = NoneVal
    /\ call = NoCall
    /\ result = NoResult
    /\ requests = <<>>
    /\ metrics = NotRendered

\* A run in which st.chat_input returns None and the button is not clicked:
\* lines 81-104 render the page, the block of lines 108-147 is skipped, and
\* the radio, not being rendered, loses its key in st.session_state.
RunWithoutPrompt(selected, tone) ==
    /\ selected_platform' = selected
    /\ tone_preference' = tone
    /\ metrics' = display_analytics(messages, ratings)
    /\ rate_response' = <<>>
    /\ UNCHANGED <<messages, ratings, pc, prompt, call, result, requests>>

\* The options of the selectbox of lines 88-92; index=0 is the first.
ToneOptions == {"Professional", "Friendly", "Casual", "Persuasive"}

\* The user picks another entry of the platform selectbox, lines 81-86.
SelectPlatform(p) ==
    /\ pc = "Idle"
    /\ p \in PlatformOptions
    /\ p # selected_platform
    /\ RunWithoutPrompt(p, tone_preference)

\* The user changes the tone selectbox, lines 88-92; its value is never read.
SelectTone(tone) ==
    /\ pc = "Idle"
    /\ tone \in ToneOptions
    /\ tone # tone_preference
    /\ RunWithoutPrompt(selected_platform, tone)

\* The user sends text in st.chat_input; the run goes from line 76 into the
\* call of line 124.
SubmitPrompt(text, t) ==
    /\ pc = "Idle"
    /\ Len(messages) + 2 <= MaxMessages
    /\ text \in Prompts
    /\ t \in Now(messages)
    /\ metrics' = display_analytics(messages, ratings)
    /\ prompt' = text
    /\ messages' = Append(messages, user_msg(text, selected_platform, t))
    /\ pc' = "AwaitingGeneration"
    /\ UNCHANGED <<ratings, selected_platform, tone_preference, rate_response, call, result,
                   requests>>

\* generate_ai_response returns and the run goes on to its end, lines 124-151.
\* Were the call to raise, the run would end there.
GenerationReturns(env, t) ==
    /\ pc = "AwaitingGeneration"
    /\ env \in SessionEnvs
    /\ t \in Now(messages)
    /\ LET g == generate_ai_response(prompt, selected_platform, env)
           fb == FeedbackBlock(rate_response, ratings)
       IN  /\ call' = [user_prompt |-> prompt, platform |-> selected_platform, env |-> env]
           /\ result' = [raised |-> g.raised, ret |-> g.ret]
           /\ requests' = g.requests
           /\ IF g.raised
              THEN /\ rate_response' = <<>>
                   /\ UNCHANGED <<messages, ratings>>
              ELSE /\ messages' = Append(messages, ai_msg(g.ret, selected_platform, t))
                   /\ rate_response' = fb.rate_response
                   /\ ratings' = fb.ratings
    /\ prompt' = NoneVal
    /\ pc' = "Idle"
    /\ UNCHANGED <<selected_platform, tone_preference, metrics>>

\* The user picks r in the "Rate response:" radio, which is on the page only
\* after a run that rendered it.  The click stores r under the widget's key
\* and starts a run; in that run st.chat_input returns None.
RateResponse(r) ==
    /\ pc = "Idle"
    /\ rate_response # <<>>
    /\ r \in RadioOptions
    /\ RunWithoutPrompt(selected_platform, tone_preference)

\* As ClearConversation, without line 153.
ClearMessagesOnly ==
    /\ pc = "Idle"
    /\ messages # <<>>
    /\ messages' = <<>>
    /\ metrics' = display_analytics(<<>>, ratings)
    /\ rate_response' = <<>>
    /\ UNCHANGED <<ratings, selected_platform, tone_preference, pc, prompt, call, result,
                   requests>>

\* The user clicks "Clear Conversation", which line 150 renders only when
\* there are messages; st.rerun() then runs the script again on the cleared
\* state.
ClearConversation ==
    /\ pc = "Idle"
    /\ messages # <<>>
    /\ messages' = <<>>
    /\ ratings' = <<>>
    /\ metrics' = display_analytics(<<>>, <<>>)
    /\ rate_response' = <<>>
    /\ UNCHANGED <<selected_platform, tone_preference, pc, prompt, call, result, requests>>

Next ==
    \/ \E p \in PlatformOptions : SelectPlatform(p)
    \/ \E tone \in ToneOptions : SelectTone(tone)
    \/ \E text \in Prompts, t \in Times : SubmitPrompt(text, t)
    \/ \E env \in SessionEnvs, t \in Times : GenerationReturns(env, t)
    \/ \E r \in RadioOptions : RateResponse(r)
    \/ ClearConversation

Spec == Init /\ [][Next]_vars

(***************************************************************************)
(* generate_ai_response on its whole input domain: any prompt, any         *)
(* platform string, any behaviour of the service.                          *)
(***************************************************************************)
Generate(user_prompt, platform, env) ==
    /\ LET g == generate_ai_response(user_prompt, platform, env)
       IN  /\ call' = [user_prompt |-> user_prompt, platform |-> platform, env |-> env]
           /\ result' = [raised |-> g.raised, ret |-> g.ret]
           /\ requests' = g.requests
    /\ UNCHANGED <<messages, ratings, selected_platform, tone_preference, rate_response,
                   pc, prompt, metrics>>

NextGen ==
    \E user_prompt \in Prompts, platform \in PlatformNames \cup OtherNames, env \in Envs :
        Generate(user_prompt, platform, env)

SpecGen == Init /\ [][NextGen]_vars

(***************************************************************************)
(* The store operations on their whole input domain: the feedback block    *)
(* applied to every value the radio can return, display_analytics and the  *)
(* reset applied to every pair of sequences that yields.                   *)
(***************************************************************************)
History1 ==
    << user_msg(<<"a">>, "Twitter/X", 0),
       ai_msg(ErrPrefix \o <<"n", "e", "t">>, "Twitter/X", 0) >>

History2 ==
    History1 \o << user_msg(<<"b">>, "General", 0), ai_msg(<<"x">>, "General", 1) >>

InitStore ==
    /\ messages \in {History1, History2}
    /\ selected_platform = "General"
    /\ tone_preference = "Professional"
    /\ ratings = <<>>
    /\ rate_response = Some(NoneVal)
    /\ pc = "Idle"
    /\ prompt = NoneVal
    /\ call = NoCall
    /\ result = NoResult
    /\ requests = <<>>
    /\ metrics = NotRendered

\* Lines 141-147 with the radio returning selected_rating.
RateBlock(selected_rating) ==
    /\ pc = "Idle"
    /\ Len(ratings) < MaxRatings
    /\ selected_rating \in RadioReturns
    /\ LET fb == FeedbackBlock(Some(selected_rating), ratings)
       IN  /\ ratings' = fb.ratings
           /\ rate_response' = fb.rate_response
    /\ UNCHANGED <<messages, selected_platform, tone_preference, pc, prompt, call, result,
                   requests, metrics>>

\* Line 95.
Analytics ==
    /\ pc = "Idle"
    /\ metrics' = display_analytics(messages, ratings)
    /\ UNCHANGED <<messages, ratings, selected_platform, tone_preference, rate_response,
                   pc, prompt, call, result, requests>>

NextStore ==
    \/ \E selected_rating \in RadioReturns : RateBlock(selected_rating)
    \/ Analytics
    \/ ClearConversation

SpecStore == InitStore /\ [][NextStore]_vars

(***************************************************************************)
(* Properties of generate_ai_response, checked under SpecGen.              *)
(***************************************************************************)
Called == call # NoCall

KnownPlatform == call.platform \in {"Twitter/X", "Facebook", "LinkedIn", "Instagram", "General"}

\* r is text without its leading and trailing whitespace
IsTrimOf(r, text) ==
    \E i \in 1 .. Len(text) + 1 : \E j \in (i - 1) .. Len(text) :
        /\ r = SubSeq(text, i, j)
        /\ \A k \in 1 .. (i - 1) : text[k] \in Whitespace
        /\ \A k \in (j + 1) .. Len(text) : text[k] \in Whitespace
        /\ r = <<>> \/ (r[1] \notin Whitespace /\ r[Len(r)] \notin Whitespace)

\* C1: generate_ai_response never raises to its caller.  Whatever the prompt,
\* the platform string and the behaviour of the service (missing API key,
\* network, auth, quota, malformed completion), it returns a string: the
\* service's text with leading and trailing whitespace removed when the
\* service answered, and otherwise a string that starts with
\* "Error generating response: ".
C1_NeverRaises ==
    Called =>
        /\ ~result.raised
        /\ IF KnownPlatform /\ call.env.stage = "ok"
           THEN IsTrimOf(result.ret, call.env.text)
           ELSE StartsWith(result.ret, ErrPrefix)

C1_Witness ==
    /\ Called
    /\ call.platform = "Twitter/X"
    /\ call.env.stage = "init"
    /\ ~result.raised
    /\ StartsWith(result.ret, ErrPrefix)

\* C5, as claimed: a platform name outside the catalog is a rejected
\* operation (the call raises), or at least an outcome that no call with a
\* catalog platform can produce, whether the service fails or succeeds.
C5_Distinguishable ==
    (Called /\ ~KnownPlatform) =>
        \/ result.raised
        \/ \A p \in PlatformNames, e \in Envs :
               generate_ai_response(call.user_prompt, p, e).ret # result.ret

\* C5, amended: a platform name outside the catalog makes the lookup of
\* line 32 raise KeyError, which generate_ai_response catches: no request is
\* issued and the call returns "Error generating response: " followed by the
\* quoted name, the same fail-soft string form a service failure takes.
C5_Absorbed ==
    (Called /\ ~KnownPlatform) =>
        /\ ~result.raised
        /\ requests = <<>>
        /\ result.ret = ErrPrefix \o <<"'">> \o Chars(call.platform) \o <<"'">>

C5_Witness ==
    /\ Called
    /\ call.platform = "TikTok"
    /\ requests = <<>>
    /\ result.ret = ErrPrefix \o <<"'", "T", "i", "k", "T", "o", "k", "'">>

\* The fixed table of the catalog: max_length, tone, token ceiling.
Documented(p) ==
    CASE p = "Twitter/X" -> <<280, "concise", 280>>
      [] p = "Facebook"  -> <<800, "friendly", 800>>
      [] p = "LinkedIn"  -> <<1200, "professional", 1024>>
      [] p = "Instagram" -> <<300, "creative", 300>>
      [] p = "General"   -> <<500, "neutral", 500>>

CarriesDocumented(req) ==
    /\ req.max_length = Documented(call.platform)[1]
    /\ req.tone = Documented(call.platform)[2]
    /\ req.max_tokens = Documented(call.platform)[3]
    /\ req.input = call.user_prompt
    /\ req.max_tokens <= 1024
    /\ req.max_tokens <= req.max_length

\* C6, as claimed: for each catalog platform every call issues exactly one
\* request, carrying the platform's tone and max_length, the user text
\* verbatim and min(max_length, 1024) as token ceiling.
C6_ExactlyOneRequest ==
    (Called /\ KnownPlatform) =>
        /\ Len(requests) = 1
        /\ CarriesDocumented(requests[1])

\* C6, amended: for each catalog platform a call issues at most one request:
\* none when the ChatGroq client cannot be constructed (missing API key), and
\* otherwise exactly one, carrying the platform's tone and max_length, the
\* user text verbatim and min(max_length, 1024) as token ceiling (280, 800,
\* 1024, 300, 500), which exceeds neither 1024 nor max_length.
C6_AtMostOneRequest ==
    (Called /\ KnownPlatform) =>
        IF call.env.stage = "init"
        THEN requests = <<>>
        ELSE /\ Len(requests) = 1
             /\ CarriesDocumented(requests[1])

C6_Witness ==
    /\ Called
    /\ call.platform = "LinkedIn"
    /\ Len(requests) = 1
    /\ requests[1].max_length = 1200
    /\ requests[1].max_tokens = 1024

(***************************************************************************)
(* Properties of the session, checked under Spec.                          *)
(***************************************************************************)
Idle == pc = "Idle"

IsPrefix(s, t) == Len(s) <= Len(t) /\ SubSeq(t, 1, Len(s)) = s

\* The step in which a submission leaves Idle.
SubmissionStarts == pc = "Idle" /\ pc' = "AwaitingGeneration"

\* C2: a submission of non-empty text in Idle appends a user Message holding
\* the text and then an assistant Message holding exactly what
\* generate_ai_response returned, generated text or error string; the messages
\* stored before stay an unchanged prefix, the ratings are unchanged, and the
\* controller is back in Idle whether the generation succeeded or failed.
C2_SubmissionAppendsTwo ==
    [][ /\ SubmissionStarts =>
            /\ prompt' # <<>>
            /\ Len(messages') = Len(messages) + 1
            /\ IsPrefix(messages, messages')
            /\ Last(messages').role = "user"
            /\ Last(messages').content = prompt'
            /\ ratings' = ratings
        /\ (pc = "AwaitingGeneration") =>
            /\ pc' = "Idle"
            /\ Len(messages') = Len(messages) + 1
            /\ IsPrefix(messages, messages')
            /\ Last(messages).role = "user"
            /\ Last(messages).content = prompt
            /\ Last(messages').role = "assistant"
            /\ ~result'.raised
            /\ Last(messages').content = result'.ret
            /\ call'.user_prompt = prompt
            /\ ratings' = ratings
      ]_vars

C2_Witness ==
    /\ Idle
    /\ Len(messages) = 4
    /\ messages[1].content = <<"a">>
    /\ messages[2].content = <<"x">>
    /\ messages[3].content = <<"b">>
    /\ call.env.stage = "invoke"
    /\ messages[4].content = result.ret
    /\ StartsWith(messages[4].content, ErrPrefix)
    /\ ratings = <<>>

\* C3, as claimed: when the session is Idle and the user submits a rating r
\* in 1..5 for the most recently displayed assistant message, r is appended to
\* the end of the ratings, the messages are unchanged and the session stays
\* Idle.
C3_RatingAppended ==
    [][ \A r \in 1 .. 5 :
            RateResponse(r) =>
                /\ ratings' = Append(ratings, r)
                /\ messages' = messages
                /\ pc' = "Idle"
      ]_vars

FiveNames == {"Twitter/X", "Facebook", "LinkedIn", "Instagram", "General"}

\* C9: the active platform is "General" initially, and in every reachable
\* state the active platform and the platform of every stored Message are
\* among the five catalog names.
C9_PlatformsInCatalog ==
    /\ selected_platform = "General"
    /\ [](/\ selected_platform \in FiveNames
          /\ \A i \in 1 .. Len(messages) : messages[i].platform \in FiveNames)

C9_Witness ==
    /\ Idle
    /\ Len(messages) = 4
    /\ messages[1].platform = "Twitter/X"
    /\ messages[3].platform = "Instagram"
    /\ selected_platform = "LinkedIn"

\* C10: in every Idle state the messages have even length and alternate
\* user, assistant, ..., starting with user, and each assistant Message
\* carries the platform of the user Message before it; that platform is the
\* one active when the text was submitted, and a later change of the active
\* platform does not alter a stored Message.
C10_AlternatingPairs ==
    /\ [](Idle =>
            /\ Len(messages) % 2 = 0
            /\ \A i \in 1 .. Len(messages) :
                   messages[i].role = (IF i % 2 = 1 THEN "user" ELSE "assistant")
            /\ \A i \in 1 .. Len(messages) :
                   i % 2 = 0 => messages[i].platform = messages[i - 1].platform)
    /\ [][ /\ SubmissionStarts => Last(messages').platform = selected_platform
           /\ selected_platform' # selected_platform => messages' = messages
         ]_vars

C10_Witness ==
    /\ Idle
    /\ Len(messages) = 4
    /\ messages[1].platform = "Facebook"
    /\ messages[2].platform = "Facebook"
    /\ messages[3].platform = "LinkedIn"
    /\ messages[4].platform = "LinkedIn"
    /\ selected_platform = "Twitter/X"

(***************************************************************************)
(* Properties of the store operations, checked under SpecStore.            *)
(***************************************************************************)
\* C4: the reset is available only when there are messages, and it empties
\* both the messages and the ratings, whatever their sizes; no step empties
\* one of the two and leaves the other.
C4_ResetClearsBoth ==
    /\ []((ENABLED ClearConversation) => messages # <<>>)
    /\ [][ /\ ClearConversation => (messages' = <<>> /\ ratings' = <<>>)
           /\ ((messages # <<>> /\ messages' = <<>>) \/ (ratings # <<>> /\ ratings' = <<>>))
                  => (messages' = <<>> /\ ratings' = <<>>)
         ]_vars

C4_Witness ==
    /\ messages = <<>>
    /\ ratings = <<>>
    /\ metrics = [total |-> 0, average |-> <<"N", "/", "A">>]

\* C7: every element of the ratings is an integer in 1..5; a value outside
\* that range is never appended.
C7_RatingsInRange ==
    \A i \in 1 .. Len(ratings) : ratings[i] \in Int /\ 1 <= ratings[i] /\ ratings[i] <= 5

C7_Witness ==
    /\ ratings = <<5, 1, 3>>
    /\ rate_response = Some(Some(3))

\* The digits of the average shown, as a number of tenths.
DigitValue(c) == CHOOSE n \in 0 .. 9 : Digit(n) = c

ShownTenths(shown) == 10 * DigitValue(shown[1]) + DigitValue(shown[3])

Total(rs) ==
    LET RECURSIVE upto(_)
        upto(n) == IF n = 0 THEN 0 ELSE upto(n - 1) + rs[n]
    IN  upto(Len(rs))

Abs(x) == IF x < 0 THEN -x ELSE x

\* C8: the average-rating metric is sum(ratings)/len(ratings), shown to one
\* decimal, for every non-empty ratings sequence ([4,5,3] gives 4.0), and is
\* the explicit "N/A" for the empty one.
C8_AverageMetric ==
    [][ metrics' # metrics =>
            IF ratings' = <<>>
            THEN metrics'.average = <<"N", "/", "A">>
            ELSE /\ Len(metrics'.average) = 5
                 /\ metrics'.average[2] = "."
                 /\ 2 * Abs(10 * Total(ratings') - ShownTenths(metrics'.average) * Len(ratings'))
                        <= Len(ratings')
                 /\ ratings' = <<4, 5, 3>> => SubSeq(metrics'.average, 1, 3) = <<"4", ".", "0">>
      ]_vars

C8_Witness ==
    /\ ratings = <<4, 5, 3>>
    /\ metrics.average = <<"4", ".", "0", " ", "STAR">>

====
